---------------------------- MODULE Spec2Model ----------------------------
(***************************************************************************)
(* A model of raycaster_rs (src/src/main.rs): the ray/sphere intersection  *)
(* test, the scene's nearest-hit scan, the shading function, the pixel     *)
(* writer and the render driver.                                           *)
(*                                                                         *)
(* Numbers.  An f64 is modelled as an exact rational [n, d] in lowest      *)
(* terms (d > 0), and f64::INFINITY as [n |-> 1, d |-> 0].  Every          *)
(* arithmetic operation of the code is modelled by the exact operation;    *)
(* sqrt is exact on squares of rationals and is rounded down to a multiple *)
(* of 1/SqrtScale elsewhere.  The intersection harness (Spec) draws only   *)
(* inputs whose discriminants have rational square roots, so no operation  *)
(* of Sphere::hit is rounded there.                                        *)
(***************************************************************************)
EXTENDS Integers, Sequences, FiniteSets, TLC

VARIABLES
    pc,            \* position of the run
    ray,           \* the Ray handed to hit / ray_color
    objects,       \* HittableList.objects
    t_min, t_max,  \* the interval handed to hit
    rec,           \* the caller's HitRecord (the &mut rec argument)
    rec_in,        \* the caller's record as it was before the call
    result,        \* the boolean hit returned
    pixel_color,   \* the colour handed to write_color
    written,       \* the three numbers write_color handed to println!
    image_width, aspect_ratio, image_height,   \* main's locals
    cam,           \* main's viewport locals
    i, j,          \* main's loop counters
    out            \* standard output, a sequence of lines

vars == <<pc, ray, objects, t_min, t_max, rec, rec_in, result, pixel_color,
          written, image_width, aspect_ratio, image_height, cam, i, j, out>>

-----------------------------------------------------------------------------
(* Bounds of the model *)

MaxT == 2
MaxRadius == 2
MaxObjects == 2
MaxDir == 1
MaxWidth == 4
SqrtScale == 16

-----------------------------------------------------------------------------
(* f64 arithmetic *)

\* v named once and used in Op: each value is computed a single time
With(v, Op(_)) == CHOOSE w \in {Op(a) : a \in {v}} : TRUE
With2(u, v, Op(_, _)) == CHOOSE w \in {Op(a, b) : a \in {u}, b \in {v}} : TRUE

Abs(x) == IF x < 0 THEN -x ELSE x

\* std::cmp::max
Max(a, b) == IF a >= b THEN a ELSE b

RECURSIVE GCD(_, _)
GCD(a, b) == IF b = 0 THEN a ELSE GCD(b, a % b)

\* the f64 with value n/d (d # 0)
Rat(n, d) ==
    With(GCD(Abs(n), Abs(d)), LAMBDA g :
        IF d < 0 THEN [n |-> (-n) \div g, d |-> (-d) \div g]
        ELSE [n |-> n \div g, d |-> d \div g])

F(k) == [n |-> k, d |-> 1]

INFINITY == [n |-> 1, d |-> 0]

\* the sum, over the least common denominator
FAdd(x, y) ==
    With(GCD(x.d, y.d), LAMBDA g :
        Rat(x.n * (y.d \div g) + y.n * (x.d \div g), (x.d \div g) * y.d))
FNeg(x) == [n |-> -x.n, d |-> x.d]
FSub(x, y) == FAdd(x, FNeg(y))
\* the product, with the common factors cancelled first
FMul(x, y) ==
    With2(GCD(Abs(x.n), y.d), GCD(Abs(y.n), x.d), LAMBDA g1, g2 :
        Rat((x.n \div g1) * (y.n \div g2), (x.d \div g2) * (y.d \div g1)))
\* the quotient x / y, y # 0
FDiv(x, y) ==
    FMul(x, IF y.n < 0 THEN [n |-> -y.d, d |-> -y.n] ELSE [n |-> y.d, d |-> y.n])
\* x < y; INFINITY is above every finite value and not below itself
FLt(x, y) ==
    With(Max(GCD(x.d, y.d), 1), LAMBDA g :
        x.n * (y.d \div g) < y.n * (x.d \div g))
FLe(x, y) ==
    With(Max(GCD(x.d, y.d), 1), LAMBDA g :
        x.n * (y.d \div g) <= y.n * (x.d \div g))

\* the integer square root, rounded down
RECURSIVE ISqrt(_)
ISqrt(k) ==
    IF k < 2 THEN k
    ELSE With(2 * ISqrt(k \div 4), LAMBDA s :
             IF (s + 1) * (s + 1) <= k THEN s + 1 ELSE s)

IsSquare(k) == With(ISqrt(k), LAMBDA s : s * s = k)

\* f64::sqrt of x >= 0
FSqrt(x) ==
    IF IsSquare(x.n) /\ IsSquare(x.d) THEN Rat(ISqrt(x.n), ISqrt(x.d))
    ELSE IF IsSquare(x.d)
         THEN Rat(ISqrt(x.n * SqrtScale * SqrtScale), ISqrt(x.d) * SqrtScale)
         ELSE Rat(ISqrt(x.n * x.d * SqrtScale * SqrtScale), x.d * SqrtScale)

\* f64::floor, as an integer
FFloor(x) == x.n \div x.d

\* `as i32` of a non-negative f64 within the i32 range: the fraction is dropped
FAsI32(x) == IF x.n >= 0 THEN x.n \div x.d ELSE -((-x.n) \div x.d)

-----------------------------------------------------------------------------
(* glam::DVec3 *)

DVec3(x, y, z) == <<x, y, z>>
VInt(x, y, z) == <<F(x), F(y), F(z)>>

VAdd(u, v) == <<FAdd(u[1], v[1]), FAdd(u[2], v[2]), FAdd(u[3], v[3])>>
VSub(u, v) == <<FSub(u[1], v[1]), FSub(u[2], v[2]), FSub(u[3], v[3])>>
VScale(k, v) == <<FMul(k, v[1]), FMul(k, v[2]), FMul(k, v[3])>>
VDivF(v, k) == <<FDiv(v[1], k), FDiv(v[2], k), FDiv(v[3], k)>>
VNeg(v) == <<FNeg(v[1]), FNeg(v[2]), FNeg(v[3])>>
VDot(u, v) == FAdd(FAdd(FMul(u[1], v[1]), FMul(u[2], v[2])), FMul(u[3], v[3]))
VLengthSquared(v) == VDot(v, v)
\* DVec3::normalize: the vector times the reciprocal of its length
VNormalize(v) == VScale(FDiv(F(1), FSqrt(VLengthSquared(v))), v)

-----------------------------------------------------------------------------
(* Ray, HitRecord, Sphere, HittableList *)

\* Ray::at
RayAt(r, t) == VAdd(r.origin, VScale(t, r.dir))

\* the record ray_color and HittableList::hit start from
ZeroRecord ==
    [p |-> VInt(0, 0, 0), normal |-> VInt(0, 0, 0), t |-> F(0), front_face |-> FALSE]

\* set_face_normal with the normal left outward on a back face
SetFaceNormalNoFlip(r, rayv, outward_normal) ==
    [r EXCEPT !.front_face = FLt(VDot(rayv.dir, outward_normal), F(0)),
              !.normal = outward_normal]

\* HitRecord::set_face_normal
SetFaceNormal(r, rayv, outward_normal) ==
    With(FLt(VDot(rayv.dir, outward_normal), F(0)), LAMBDA front_face :
        [r EXCEPT !.front_face = front_face,
                  !.normal = IF front_face THEN outward_normal
                             ELSE VNeg(outward_normal)])

\* the quadratic's coefficients in Sphere::hit
HitCoeffs(s, rayv) ==
    With(VSub(rayv.origin, s.center), LAMBDA oc :
    With2(VLengthSquared(rayv.dir), VDot(oc, rayv.dir), LAMBDA a, half_b :
    With(FSub(VLengthSquared(oc), FMul(s.radius, s.radius)), LAMBDA c :
        [a |-> a, half_b |-> half_b, c |-> c,
         discriminant |-> FSub(FMul(half_b, half_b), FMul(a, c))])))

OutOfRange(root, tmin, tmax) == FLt(root, tmin) \/ FLt(tmax, root)

\* Sphere::hit with no second root tried: false once the nearer root is outside
SphereHitNoFallback(s, rayv, tmin, tmax, r) ==
    With(HitCoeffs(s, rayv), LAMBDA q :
    IF FLt(q.discriminant, F(0)) THEN [hit |-> FALSE, rec |-> r]
    ELSE
      With(FDiv(FSub(FNeg(q.half_b), FSqrt(q.discriminant)), q.a), LAMBDA root :
      IF OutOfRange(root, tmin, tmax) THEN [hit |-> FALSE, rec |-> r]
      ELSE
        With(RayAt(rayv, root), LAMBDA p :
        With(VDivF(VSub(p, s.center), s.radius), LAMBDA outward_normal :
            [hit |-> TRUE,
             rec |-> SetFaceNormal([r EXCEPT !.t = root, !.p = p],
                                   rayv, outward_normal)]))))

\* Sphere::hit with rec.t stored before the roots are tested against the range
SphereHitEarlyWrite(s, rayv, tmin, tmax, r) ==
    With(HitCoeffs(s, rayv), LAMBDA q :
    IF FLt(q.discriminant, F(0)) THEN [hit |-> FALSE, rec |-> r]
    ELSE
      With(FSqrt(q.discriminant), LAMBDA sqrt :
      With2(FDiv(FSub(FNeg(q.half_b), sqrt), q.a),
            FDiv(FAdd(FNeg(q.half_b), sqrt), q.a), LAMBDA root, inner_root :
      IF OutOfRange(root, tmin, tmax) /\ OutOfRange(inner_root, tmin, tmax)
      THEN [hit |-> FALSE, rec |-> [r EXCEPT !.t = root]]
      ELSE
        With(RayAt(rayv, root), LAMBDA p :
        With(VDivF(VSub(p, s.center), s.radius), LAMBDA outward_normal :
            [hit |-> TRUE,
             rec |-> SetFaceNormal([r EXCEPT !.t = root, !.p = p],
                                   rayv, outward_normal)])))))

\* Sphere::hit.  The `let root` of the inner block (line 147) declares a new
\* variable that ends with the block: the root used from line 152 on is the
\* one of line 145.
SphereHit(s, rayv, tmin, tmax, r) ==
    With(HitCoeffs(s, rayv), LAMBDA q :
    IF FLt(q.discriminant, F(0)) THEN [hit |-> FALSE, rec |-> r]
    ELSE
      With(FSqrt(q.discriminant), LAMBDA sqrt :
      With2(FDiv(FSub(FNeg(q.half_b), sqrt), q.a),
            FDiv(FAdd(FNeg(q.half_b), sqrt), q.a), LAMBDA root, inner_root :
      IF OutOfRange(root, tmin, tmax) /\ OutOfRange(inner_root, tmin, tmax)
      THEN [hit |-> FALSE, rec |-> r]
      ELSE
        With(RayAt(rayv, root), LAMBDA p :
        With(VDivF(VSub(p, s.center), s.radius), LAMBDA outward_normal :
            [hit |-> TRUE,
             rec |-> SetFaceNormal([r EXCEPT !.t = root, !.p = p],
                                   rayv, outward_normal)])))))

\* the loop of HittableList::hit over objs, from the loop state st
RECURSIVE ListScan(_, _, _, _)
ListScan(objs, rayv, tmin, st) ==
    IF objs = <<>> THEN st
    ELSE
      With(SphereHit(Head(objs), rayv, tmin, st.closest_so_far, st.temp_rec),
           LAMBDA h :
          ListScan(Tail(objs), rayv, tmin,
            IF h.hit
            THEN [hit_anything |-> TRUE,
                  closest_so_far |-> h.rec.t,
                  temp_rec |-> h.rec,
                  rec |-> [p |-> h.rec.p, normal |-> h.rec.normal,
                           t |-> h.rec.t, front_face |-> h.rec.front_face]]
            ELSE [st EXCEPT !.temp_rec = h.rec]))

\* HittableList::hit
HittableListHit(objs, rayv, tmin, tmax, r) ==
    With(ListScan(objs, rayv, tmin,
                  [hit_anything |-> FALSE, closest_so_far |-> tmax,
                   temp_rec |-> ZeroRecord, rec |-> r]),
         LAMBDA st : [hit |-> st.hit_anything, rec |-> st.rec])

-----------------------------------------------------------------------------
(* The intersection harness: one call of Sphere::hit or HittableList::hit   *)
(* on inputs drawn from bounded sets                                         *)

\* main's camera_center (line 26) and a second origin
Origins == {VInt(0, 0, 0), VInt(0, 0, 1)}

\* non-zero directions: hit's precondition (a # 0)
Dirs == {VInt(0, 0, -1), VInt(0, 0, -2), VInt(1, 0, -1), VInt(0, 1, 0), VInt(0, 0, 1)}

Centers == {VInt(0, 0, 0), VInt(0, 0, -1), VInt(0, 0, -2), VInt(1, 0, -1)}

Spheres == {[center |-> c, radius |-> F(r)] : c \in Centers, r \in 1..MaxRadius}

Rays == {[origin |-> o, dir |-> d] : o \in Origins, d \in Dirs}

SphereLists == UNION {[1..n -> Spheres] : n \in 0..MaxObjects}

\* a record left by an earlier, unrelated call
StaleRecord ==
    [p |-> VInt(0, 0, 7), normal |-> VInt(0, 1, 0), t |-> F(7), front_face |-> TRUE]

\* the square root of Sphere::hit is exact for s and rayv
ExactSqrt(s, rayv) ==
    LET d == HitCoeffs(s, rayv).discriminant
    IN  d.n < 0 \/ (IsSquare(d.n) /\ IsSquare(d.d))

NoRender ==
    /\ pixel_color = VInt(0, 0, 0)
    /\ written = <<0, 0, 0>>
    /\ image_width = 0
    /\ aspect_ratio = F(1)
    /\ image_height = 0
    /\ cam = <<>>
    /\ i = 0
    /\ j = 0
    /\ out = <<>>

Init ==
    /\ pc = "ready"
    /\ ray \in Rays
    /\ objects \in SphereLists
    /\ \A k \in 1..Len(objects) : ExactSqrt(objects[k], ray)
    /\ t_min \in {F(k) : k \in 0..MaxT}
    /\ t_max \in {F(k) : k \in 0..MaxT} \cup {INFINITY}
    /\ FLe(t_min, t_max)
    /\ rec_in \in {ZeroRecord, StaleRecord}
    /\ rec = rec_in
    /\ result = FALSE
    /\ NoRender

\* a caller runs objects[1].hit(&ray, t_min, t_max, &mut rec)
CallSphereHit ==
    /\ pc = "ready"
    /\ Len(objects) >= 1
    /\ \E h \in {SphereHit(objects[1], ray, t_min, t_max, rec)} :
           /\ rec' = h.rec
           /\ result' = h.hit
    /\ pc' = "sphere_done"
    /\ UNCHANGED <<ray, objects, t_min, t_max, rec_in, pixel_color, written,
                   image_width, aspect_ratio, image_height, cam, i, j, out>>

\* a caller runs world.hit(&ray, t_min, t_max, &mut rec)
CallListHit ==
    /\ pc = "ready"
    /\ \E h \in {HittableListHit(objects, ray, t_min, t_max, rec)} :
           /\ rec' = h.rec
           /\ result' = h.hit
    /\ pc' = "list_done"
    /\ UNCHANGED <<ray, objects, t_min, t_max, rec_in, pixel_color, written,
                   image_width, aspect_ratio, image_height, cam, i, j, out>>

Next == CallSphereHit \/ CallListHit

Spec == Init /\ [][Next]_vars

-----------------------------------------------------------------------------
(* What the claims about hit speak of, stated without the code's own steps  *)

InRange(t, lo, hi) == FLe(lo, t) /\ FLe(t, hi)

\* the two roots of the quadratic (discriminant >= 0)
NearRoot(q) == FDiv(FSub(FNeg(q.half_b), FSqrt(q.discriminant)), q.a)
FarRoot(q) == FDiv(FAdd(FNeg(q.half_b), FSqrt(q.discriminant)), q.a)

RootsWithin(s, rayv, lo, hi) ==
    LET q == HitCoeffs(s, rayv)
    IN  IF FLt(q.discriminant, F(0)) THEN {}
        ELSE {t \in {NearRoot(q), FarRoot(q)} : InRange(t, lo, hi)}

Least(S) == CHOOSE t \in S : \A u \in S : FLe(t, u)

\* |origin + t*dir - center|^2 - radius^2, the quadratic a*t^2 + 2*half_b*t + c
PolyAt(q, t) ==
    FAdd(FAdd(FMul(q.a, FMul(t, t)), FMul(F(2), FMul(q.half_b, t))), q.c)

\* the ray meets the sphere at some real t in [lo, hi]: decided on the signs
\* of the quadratic at the ends of the interval and the place of its vertex,
\* with no square root taken
MeetsWithin(s, rayv, lo, hi) ==
    LET q == HitCoeffs(s, rayv)
        vertex == FDiv(FNeg(q.half_b), q.a)
        flo == PolyAt(q, lo)
    IN  /\ FLe(F(0), q.discriminant)
        /\ IF hi = INFINITY
           THEN FLe(flo, F(0)) \/ FLe(lo, vertex)
           ELSE LET fhi == PolyAt(q, hi)
                IN  \/ FLe(flo, F(0)) /\ FLe(F(0), fhi)
                    \/ FLe(F(0), flo) /\ FLe(fhi, F(0))
                    \/ /\ FLt(F(0), flo)
                       /\ FLt(F(0), fhi)
                       /\ InRange(vertex, lo, hi)

Reorderings(objs) ==
    {[k \in 1..Len(objs) |-> objs[f[k]]] : f \in Permutations(1..Len(objs))}

OnSphere(s, p) ==
    VLengthSquared(VSub(p, s.center)) = FMul(s.radius, s.radius)

\* r is a record set_face_normal leaves for the outward normal of s at r.p
FacesRay(s, rayv, r) ==
    LET outward_normal == VDivF(VSub(r.p, s.center), s.radius)
    IN  /\ r.front_face = FLt(VDot(rayv.dir, outward_normal), F(0))
        /\ r.normal = IF r.front_face THEN outward_normal ELSE VNeg(outward_normal)

-----------------------------------------------------------------------------
(* Claims about Sphere::hit and HittableList::hit (under Spec)              *)

\* C1: when Sphere.hit returns true, rec.t is the smallest intersection
\* parameter inside [t_min, t_max] (so t_min <= rec.t <= t_max) and
\* rec.p = ray.at(rec.t); with the nearer root outside and the farther root
\* inside, the hit is reported at the farther root.
C1_SmallestRootInRange ==
    (pc = "sphere_done" /\ result) =>
        LET S == RootsWithin(objects[1], ray, t_min, t_max)
        IN  /\ S # {}
            /\ rec.t = Least(S)
            /\ InRange(rec.t, t_min, t_max)
            /\ rec.p = RayAt(ray, rec.t)

\* C2: Sphere.hit returns true if and only if the ray meets the sphere at
\* some t with t_min <= t <= t_max, i.e. the discriminant is >= 0 and at
\* least one of the two roots lies in [t_min, t_max].
C2_HitIffMeets ==
    pc = "sphere_done" =>
        /\ result <=> MeetsWithin(objects[1], ray, t_min, t_max)
        /\ result <=> (RootsWithin(objects[1], ray, t_min, t_max) # {})

\* C2's case: the nearer root is outside the interval, the farther inside
C2_Witness ==
    /\ pc = "sphere_done"
    /\ result
    /\ LET q == HitCoeffs(objects[1], ray)
       IN  /\ ~InRange(NearRoot(q), t_min, t_max)
           /\ InRange(FarRoot(q), t_min, t_max)

\* C3: HittableList.hit returns true if and only if some member intersects
\* the ray in [t_min, t_max], and on true rec.t is the minimum over the
\* members of the member's smallest intersection parameter in [t_min, t_max].
C3_GloballyNearest ==
    pc = "list_done" =>
        LET S == UNION {RootsWithin(objects[k], ray, t_min, t_max) :
                          k \in 1..Len(objects)}
        IN  /\ result <=> (S # {})
            /\ result => rec.t = Least(S)

\* C4: two lists holding the same spheres in a different order return the
\* same boolean and the same HitRecord.
C4_OrderIndependent ==
    pc = "list_done" =>
        \A objs \in Reorderings(objects) :
            HittableListHit(objs, ray, t_min, t_max, rec_in)
                = [hit |-> result, rec |-> rec]

\* C5: after every hit that returns true, front_face = (dot(ray.dir,
\* outward_normal) < 0), the stored normal is the outward normal when
\* front_face and its negation otherwise, and dot(ray.dir, rec.normal) <= 0;
\* outward_normal is (rec.p - center) / radius of the sphere rec.p lies on.
C5_FrontFace ==
    /\ (pc = "sphere_done" /\ result) =>
          /\ OnSphere(objects[1], rec.p)
          /\ FacesRay(objects[1], ray, rec)
    /\ (pc = "list_done" /\ result) =>
          \E k \in 1..Len(objects) :
              /\ OnSphere(objects[k], rec.p)
              /\ FacesRay(objects[k], ray, rec)
    /\ (pc \in {"sphere_done", "list_done"} /\ result) =>
          FLe(VDot(ray.dir, rec.normal), F(0))

\* C5's case: a tangent ray (discriminant 0), where the normal is negated
C5_Witness ==
    /\ pc \in {"sphere_done", "list_done"}
    /\ result
    /\ ~rec.front_face
    /\ \E k \in 1..Len(objects) :
           /\ HitCoeffs(objects[k], ray).discriminant = F(0)
           /\ OnSphere(objects[k], rec.p)

\* C6: when hit returns false, every field of the caller's record has the
\* value it had before the call (Sphere.hit and HittableList.hit, the empty
\* scene included).
C6_MissLeavesRecord ==
    (pc \in {"sphere_done", "list_done"} /\ ~result) => rec = rec_in

\* C6's case: a miss on a scene with members, over a record that held data
C6_Witness ==
    /\ pc = "list_done"
    /\ ~result
    /\ objects # <<>>
    /\ rec_in = StaleRecord
    /\ \E k \in 1..Len(objects) :
           FLe(F(0), HitCoeffs(objects[k], ray).discriminant)

-----------------------------------------------------------------------------
(* Shading and the pixel writer *)

\* main's world (lines 10-21)
World ==
    << [center |-> DVec3(F(0), F(0), F(-1)), radius |-> Rat(1, 2)],
       [center |-> DVec3(F(0), Rat(-201, 2), F(-1)), radius |-> F(100)] >>

White == VInt(1, 1, 1)
SkyBlue == DVec3(Rat(1, 2), Rat(7, 10), F(1))

\* ray_color with the two ends of the background gradient exchanged
RayColorSwapped(rayv, world) ==
    With(HittableListHit(world, rayv, F(0), INFINITY, ZeroRecord), LAMBDA h :
    IF h.hit
    THEN VScale(Rat(1, 2), DVec3(FAdd(h.rec.normal[1], F(1)),
                                 FAdd(h.rec.normal[2], F(1)),
                                 FAdd(h.rec.normal[3], F(1))))
    ELSE With(VNormalize(rayv.dir), LAMBDA unit_direction :
         With(FMul(Rat(1, 2), FAdd(unit_direction[2], F(1))), LAMBDA a :
             VAdd(VScale(FSub(F(1), a), SkyBlue), VScale(a, White)))))

\* ray_color
RayColor(rayv, world) ==
    With(HittableListHit(world, rayv, F(0), INFINITY, ZeroRecord), LAMBDA h :
    IF h.hit
    THEN VScale(Rat(1, 2), DVec3(FAdd(h.rec.normal[1], F(1)),
                                 FAdd(h.rec.normal[2], F(1)),
                                 FAdd(h.rec.normal[3], F(1))))
    ELSE With(VNormalize(rayv.dir), LAMBDA unit_direction :
         With(FMul(Rat(1, 2), FAdd(unit_direction[2], F(1))), LAMBDA a :
             VAdd(VScale(FSub(F(1), a), White), VScale(a, SkyBlue)))))

\* (255.999 * channel).floor(): floor(255999*n / (1000*d)), split as
\* 255*n/d + 999*n/(1000*d) so that the products stay small
ChannelValue(x) ==
    LET whole == (255 * x.n) \div x.d
        rest == (255 * x.n) % x.d
    IN  whole + ((1000 * rest + 999 * x.n) \div (1000 * x.d))

\* the three arguments of write_color's println!
WriteColorValues(c) == <<ChannelValue(c[1]), ChannelValue(c[2]), ChannelValue(c[3])>>

\* "{} {} {}" of three floored f64: each prints as its integer digits
FormatTriple(v) == ToString(v[1]) \o " " \o ToString(v[2]) \o " " \o ToString(v[3])

\* the line write_color prints
WriteColor(c) == FormatTriple(WriteColorValues(c))

-----------------------------------------------------------------------------
(* The shading harness: ray_color on the program's world, write_color on a   *)
(* colour, on inputs drawn from bounded sets                                 *)

DirRange == (0 - MaxDir)..MaxDir

TestRays ==
    {[origin |-> VInt(0, 0, 0), dir |-> VInt(x, y, z)] :
        x \in DirRange, y \in DirRange, z \in DirRange} \
    {[origin |-> VInt(0, 0, 0), dir |-> VInt(0, 0, 0)]}

TestChannels == {Rat(-1, 2), F(0), Rat(1, 2), F(1), Rat(3, 2)}

TestColors == {DVec3(r, g, b) : r \in TestChannels, g \in TestChannels, b \in TestChannels}

ColorInit ==
    /\ pc = "ready"
    /\ ray \in TestRays
    /\ objects = World
    /\ t_min = F(0)
    /\ t_max = INFINITY
    /\ rec = ZeroRecord
    /\ rec_in = ZeroRecord
    /\ result = FALSE
    /\ pixel_color \in TestColors
    /\ written = <<0, 0, 0>>
    /\ image_width = 0
    /\ aspect_ratio = F(1)
    /\ image_height = 0
    /\ cam = <<>>
    /\ i = 0
    /\ j = 0
    /\ out = <<>>

\* a caller runs pixel_color = ray_color(ray, &world)
CallRayColor ==
    /\ pc = "ready"
    /\ pixel_color' = RayColor(ray, objects)
    /\ pc' = "shaded"
    /\ UNCHANGED <<ray, objects, t_min, t_max, rec, rec_in, result, written,
                   image_width, aspect_ratio, image_height, cam, i, j, out>>

\* a caller runs write_color(pixel_color)
CallWriteColor ==
    /\ pc \in {"ready", "shaded"}
    /\ written' = WriteColorValues(pixel_color)
    /\ out' = Append(out, WriteColor(pixel_color))
    /\ pc' = IF pc = "ready" THEN "written" ELSE "shaded_written"
    /\ UNCHANGED <<ray, objects, t_min, t_max, rec, rec_in, result, pixel_color,
                   image_width, aspect_ratio, image_height, cam, i, j>>

ColorNext == CallRayColor \/ CallWriteColor

ColorSpec == ColorInit /\ [][ColorNext]_vars

-----------------------------------------------------------------------------
(* The render driver, main *)

\* the height with the quotient rounded to the nearest integer
ImageHeightRounded(w, ar) == Max(FFloor(FAdd(FDiv(F(w), ar), Rat(1, 2))), 1)

\* line 8: max((image_width as f64 / aspect_ratio) as i32, 1)
ImageHeight(w, ar) == Max(FAsI32(FDiv(F(w), ar)), 1)

\* lines 23-46: the viewport of a w x h image
Camera(w, h) ==
    LET focal_length == F(1)
        viewport_height == F(2)
        viewport_width == FMul(viewport_height, FDiv(F(w), F(h)))
        camera_center == VInt(0, 0, 0)
        viewport_u == DVec3(viewport_width, F(0), F(0))
        viewport_v == DVec3(F(0), FNeg(viewport_height), F(0))
        pixel_delta_u == VDivF(viewport_u, F(w))
        pixel_delta_v == VDivF(viewport_v, F(h))
        viewport_upper_left ==
            VSub(VSub(VSub(camera_center, DVec3(F(0), F(0), focal_length)),
                      VDivF(viewport_u, F(2))),
                 VDivF(viewport_v, F(2)))
        pixel00_loc ==
            VAdd(viewport_upper_left, VScale(Rat(1, 2), VAdd(pixel_delta_u, pixel_delta_v)))
    IN  [viewport_width |-> viewport_width,
         camera_center |-> camera_center,
         pixel_delta_u |-> pixel_delta_u,
         pixel_delta_v |-> pixel_delta_v,
         pixel00_loc |-> pixel00_loc]

\* lines 53-59: the ray through the centre of pixel column col, row row
PixelRay(c, col, row) ==
    LET pixel_center ==
            VAdd(VAdd(c.pixel00_loc, VScale(F(col), c.pixel_delta_u)),
                 VScale(F(row), c.pixel_delta_v))
        ray_direction == VSub(pixel_center, c.camera_center)
    IN  [origin |-> c.camera_center, dir |-> ray_direction]

\* line 48: println!("P3\n{} {}\n255", image_width, image_height)
HeaderLines(w, h) == <<"P3", ToString(w) \o " " \o ToString(h), "255">>

\* main's aspect_ratio (line 6) and other positive ratios
AspectRatios == {Rat(16, 9), F(1), F(2), Rat(4, 3), Rat(2, 3)}

RenderInit ==
    /\ pc = "start"
    /\ image_width \in 1..MaxWidth
    /\ aspect_ratio \in AspectRatios
    /\ image_height = 0
    /\ cam = <<>>
    /\ objects = <<>>
    /\ ray = [origin |-> VInt(0, 0, 0), dir |-> VInt(0, 0, -1)]
    /\ t_min = F(0)
    /\ t_max = INFINITY
    /\ rec = ZeroRecord
    /\ rec_in = ZeroRecord
    /\ result = FALSE
    /\ pixel_color = VInt(0, 0, 0)
    /\ written = <<0, 0, 0>>
    /\ i = 0
    /\ j = 0
    /\ out = <<>>

\* lines 6-46: the image height, the world and the viewport
Setup ==
    /\ pc = "start"
    /\ \E h \in {ImageHeight(image_width, aspect_ratio)} :
           /\ image_height' = h
           /\ cam' = Camera(image_width, h)
    /\ objects' = World
    /\ pc' = "header"
    /\ UNCHANGED <<ray, t_min, t_max, rec, rec_in, result, pixel_color, written,
                   image_width, aspect_ratio, i, j, out>>

\* line 48
PrintHeader ==
    /\ pc = "header"
    /\ out' = out \o HeaderLines(image_width, image_height)
    /\ i' = 0
    /\ j' = 0
    /\ pc' = "render"
    /\ UNCHANGED <<ray, objects, t_min, t_max, rec, rec_in, result, pixel_color,
                   written, image_width, aspect_ratio, image_height, cam>>

\* the loops exchanged: columns outside, rows inside
RenderPixelColumnMajor ==
    /\ pc = "render"
    /\ j < image_height
    /\ i < image_width
    /\ \E r \in {PixelRay(cam, i, j)} :
         \E color \in {RayColor(r, objects)} :
             /\ ray' = r
             /\ pixel_color' = color
             /\ written' = WriteColorValues(color)
             /\ out' = Append(out, WriteColor(color))
    /\ IF j + 1 < image_height
       THEN j' = j + 1 /\ i' = i
       ELSE IF i + 1 < image_width
            THEN j' = 0 /\ i' = i + 1
            ELSE j' = image_height /\ i' = 0
    /\ UNCHANGED <<pc, objects, t_min, t_max, rec, rec_in, result,
                   image_width, aspect_ratio, image_height, cam>>

\* lines 52-63: one turn of the inner loop, for column i of row j
RenderPixel ==
    /\ pc = "render"
    /\ j < image_height
    /\ i < image_width
    /\ \E r \in {PixelRay(cam, i, j)} :
         \E color \in {RayColor(r, objects)} :
             /\ ray' = r
             /\ pixel_color' = color
             /\ written' = WriteColorValues(color)
             /\ out' = Append(out, WriteColor(color))
    /\ IF i + 1 < image_width
       THEN i' = i + 1 /\ j' = j
       ELSE i' = 0 /\ j' = j + 1
    /\ UNCHANGED <<pc, objects, t_min, t_max, rec, rec_in, result,
                   image_width, aspect_ratio, image_height, cam>>

\* lines 64-67: the outer loop ends and main returns
Finish ==
    /\ pc = "render"
    /\ j >= image_height
    /\ pc' = "done"
    /\ UNCHANGED <<ray, objects, t_min, t_max, rec, rec_in, result, pixel_color,
                   written, image_width, aspect_ratio, image_height, cam, i, j, out>>

RenderNext == Setup \/ PrintHeader \/ RenderPixel \/ Finish

RenderSpec == RenderInit /\ [][RenderNext]_vars

-----------------------------------------------------------------------------
(* Claims about write_color and ray_color (under ColorSpec)                  *)

\* C8: every R, G and B value written by write_color is an integer in
\* [0, 255]: floor(255.999 * channel) for a channel in [0, 1], and saturated
\* to 0 or 255 for a channel below 0 or above 1.
C8_ChannelsSaturate ==
    pc \in {"written", "shaded_written"} =>
        \A k \in 1..3 :
            LET c == pixel_color[k]
                v == written[k]
            IN  /\ v \in 0..255
                /\ (FLe(F(0), c) /\ FLe(c, F(1))) =>
                       /\ 1000 * v * c.d <= 255999 * c.n
                       /\ 255999 * c.n < 1000 * (v + 1) * c.d
                /\ FLt(c, F(0)) => v = 0
                /\ FLt(F(1), c) => v = 255

UpRay == [origin |-> VInt(0, 0, 0), dir |-> VInt(0, 1, 0)]

NoMemberMeets(rayv) ==
    \A k \in 1..Len(World) : ~MeetsWithin(World[k], rayv, F(0), INFINITY)

\* C10, as stated: for the two-sphere scene, ray_color of the ray from the
\* origin straight up finds no hit, takes the background path with
\* a = 0.5 * (normalize(direction).y + 1) and returns (1-a)*white + a*blue,
\* a colour strictly between white and the sky-blue endpoint, equal to neither.
C10_StrictlyBetween ==
    (pc = "shaded" /\ ray = UpRay) =>
        LET a == FMul(Rat(1, 2), FAdd(VNormalize(ray.dir)[2], F(1)))
        IN  /\ NoMemberMeets(ray)
            /\ pixel_color = VAdd(VScale(FSub(F(1), a), White), VScale(a, SkyBlue))
            /\ FLt(F(0), a) /\ FLt(a, F(1))
            /\ pixel_color # White
            /\ pixel_color # SkyBlue

\* C10, amended: for the two-sphere scene, ray_color of the ray from the
\* origin straight up finds no hit, takes the background path with a = 1 and
\* returns exactly the sky-blue endpoint (0.5, 0.7, 1.0).
C10_SkyBlueEndpoint ==
    (pc = "shaded" /\ ray = UpRay) =>
        LET a == FMul(Rat(1, 2), FAdd(VNormalize(ray.dir)[2], F(1)))
        IN  /\ NoMemberMeets(ray)
            /\ a = F(1)
            /\ pixel_color = VAdd(VScale(FSub(F(1), a), White), VScale(a, SkyBlue))
            /\ pixel_color = DVec3(Rat(1, 2), Rat(7, 10), F(1))

\* C10's case: ray_color has returned for the ray straight up
C10_Witness == pc = "shaded" /\ ray = UpRay /\ objects = World

-----------------------------------------------------------------------------
(* Claims about the render driver (under RenderSpec)                         *)

PixelsWritten == Len(out) - 3

\* C7: a run writes the three header lines (P3, '<image_width>
\* <image_height>', 255; 'P3', '400 225', '255' for width 400 and aspect
\* 16/9), then exactly image_width * image_height pixel lines in row-major
\* order: the k-th pixel line is the colour of the ray through pixel column
\* k mod image_width, row k div image_width; after the last pixel the run
\* terminates.
C7_RowMajorOutput ==
    /\ pc \in {"start", "header"} => out = <<>>
    /\ pc \in {"render", "done"} =>
          /\ Len(out) >= 3
          /\ SubSeq(out, 1, 3) =
                <<"P3", ToString(image_width) \o " " \o ToString(image_height), "255">>
          /\ PixelsWritten <= image_width * image_height
          /\ PixelsWritten = j * image_width + i
          /\ \A k \in 0..(PixelsWritten - 1) :
                out[k + 4] = WriteColor(RayColor(
                    PixelRay(cam, k % image_width, k \div image_width), World))
    /\ (pc = "render" /\ PixelsWritten = image_width * image_height) =>
          ENABLED Finish /\ ~ENABLED RenderPixel
    /\ (pc = "render" /\ PixelsWritten < image_width * image_height) =>
          j < image_height /\ i < image_width /\ ~ENABLED Finish
    /\ pc = "done" =>
          PixelsWritten = image_width * image_height /\ ~ENABLED RenderNext
    /\ HeaderLines(400, ImageHeight(400, Rat(16, 9))) = <<"P3", "400 225", "255">>

\* C7's case: a finished run of an image with several rows and columns
C7_Witness == pc = "done" /\ image_width >= 3 /\ image_height >= 2

\* the quotient w / ar with its fraction dropped, and rounded to the nearest
TruncQuotient(w, ar) ==
    CHOOSE h \in 0..(w * ar.d) :
        FLe(FMul(F(h), ar), F(w)) /\ FLt(F(w), FMul(F(h + 1), ar))
RoundQuotient(w, ar) ==
    CHOOSE h \in 0..(w * ar.d + 1) :
        /\ FLe(FMul(F(2 * h - 1), ar), F(2 * w))
        /\ FLt(F(2 * w), FMul(F(2 * h + 1), ar))

\* the one height is printed, sizes the viewport and counts the rows
HeightUsedThroughout ==
    /\ pc # "start" =>
          cam.viewport_width = FDiv(F(2 * image_width), F(image_height))
    /\ pc \in {"render", "done"} =>
          out[2] = ToString(image_width) \o " " \o ToString(image_height)
    /\ pc = "done" => PixelsWritten = image_width * image_height

\* C9, as stated: the image height is max(1, round(image_width /
\* aspect_ratio)), the quotient rounded to the nearest integer (not
\* truncated); the same height is printed in the header, used for the
\* viewport width and used as the row count.
C9_HeightRounded ==
    /\ pc # "start" =>
          image_height = Max(1, RoundQuotient(image_width, aspect_ratio))
    /\ HeightUsedThroughout

\* C9, amended: the image height is max(1, trunc(image_width /
\* aspect_ratio)), the quotient truncated toward zero (not rounded); the same
\* height is printed in the header, used for the viewport width and used as
\* the row count.
C9_HeightTruncated ==
    /\ pc # "start" =>
          image_height = Max(1, TruncQuotient(image_width, aspect_ratio))
    /\ HeightUsedThroughout
    /\ ImageHeight(400, Rat(16, 9)) = 225

\* C9's case: a finished run whose quotient rounds up but truncates down
C9_Witness ==
    /\ pc = "done"
    /\ TruncQuotient(image_width, aspect_ratio) >= 1
    /\ RoundQuotient(image_width, aspect_ratio)
          = TruncQuotient(image_width, aspect_ratio) + 1

=============================================================================
